---- MODULE Spec2Model ----
(***************************************************************************)
(* Credit valuation system: the input model (models.py) and the           *)
(* calculation pipeline (engine.py) as a state machine.                   *)
(*                                                                         *)
(* A caller constructs PeriodData values one by one, then a               *)
(* GlobalParameters, then a CohortInput (load_cohort_input's order), and  *)
(* run_valuation takes the cohort through its stages.                      *)
(*                                                                         *)
(* Numbers.  Python's float is IEEE-754 binary64; the model keeps the     *)
(* format and scales it down: a significand of MantBits bits (53 in       *)
(* binary64), round-to-nearest ties-to-even, gradual underflow with the   *)
(* smallest subnormal 2^-FracBits (2^-1074 in binary64), no overflow (the  *)
(* inputs are kept small).  A float is held as the integer                 *)
(* value * 2^FracBits, so every representable value is an integer and     *)
(* comparisons are the integers' own.                                      *)
(***************************************************************************)
EXTENDS Integers, Sequences, FiniteSets, TLC

VARIABLES
    pc,        \* position of the caller / of run_valuation
    periods,   \* the caller's list of constructed PeriodData
    params,    \* the caller's GlobalParameters, or None
    cohort,    \* the constructed CohortInput, or None
    call,      \* the last constructor call: its name, arguments and outcome
    df,        \* the DataFrame run_valuation passes from stage to stage
    summary,   \* the ValuationSummary, or None
    err,       \* the exception that ended the run, or None
    fe_inexact, \* IEEE inexact flag of compute_survival's operations
    first      \* what an earlier run_valuation call returned, or None

vars == <<pc, periods, params, cohort, call, df, summary, err, fe_inexact, first>>

None == [type |-> "NoneType"]

(***************************************************************************)
(* Bounds of the model.                                                    *)
(***************************************************************************)
MaxPeriods == 3   \* longest list of PeriodData the caller builds
MantBits == 6     \* significand bits of the scaled-down float format
FracBits == 8     \* the smallest positive float is 2^-FracBits
LongPeriods == 9  \* longest pre-built cohort of SpecLong

(***************************************************************************)
(* Program constants.                                                      *)
(***************************************************************************)
MaxPeriodIndex == 60    \* PeriodData.period: Field(ge=1, le=60)
MonthsPerYear == 12     \* discount exponent: period / 12.0

(***************************************************************************)
(* The float format.                                                       *)
(***************************************************************************)
Pow2(n) == 2 ^ n

Scale == Pow2(FracBits)
One == Scale

RECURSIVE BitLen(_)
BitLen(q) == IF q = 0 THEN 0 ELSE 1 + BitLen(q \div 2)

\* Spacing of the floats in the binade of q (q >= 0, in units of 2^-FracBits).
Ulp(q) == IF BitLen(q) > MantBits THEN Pow2(BitLen(q) - MantBits) ELSE 1

\* n/d rounded to the nearest integer, ties to the even one (n >= 0, d > 0).
RoundHalfEven(n, d) ==
    LET q == n \div d
        r == n % d
    IN  IF 2 * r < d THEN q
        ELSE IF 2 * r > d THEN q + 1
        ELSE IF q % 2 = 0 THEN q ELSE q + 1

\* The float nearest to the rational n/d (d > 0), ties to even.
Round(n, d) ==
    LET a == IF n >= 0 THEN n ELSE -n
        u == Ulp(a \div d)
        m == u * RoundHalfEven(a, d * u)
    IN  IF n >= 0 THEN m ELSE -m

IsFloat(x) == Round(x, 1) = x

FAdd(a, b) == Round(a + b, 1)
FSub(a, b) == Round(a - b, 1)
FMul(a, b) == Round(a * b, Scale)
FDiv(a, b) == Round(a * Scale, b)
\* int -> float, as pandas/numpy and Python do before mixed arithmetic.
FromInt(n) == Round(n * Scale, 1)

\* The operation's exact result is not a float: IEEE raises "inexact".
InexactAdd(a, b) == FAdd(a, b) # a + b
InexactSub(a, b) == FSub(a, b) # a - b
InexactMul(a, b) == FMul(a, b) * Scale # a * b

(***************************************************************************)
(* pow, as numpy's ** on float64 calls it (engine.py line 60).  libm's pow *)
(* is modelled as correctly rounded: the float nearest to the real         *)
(* base^y.  The real value is irrational in general, so the rounding is    *)
(* decided by comparing Scale-th powers, (midpoint)^Scale against          *)
(* base^(y * Scale), in a wider working format (15-bit significand,        *)
(* bounds rounded down and up), the way a libm decides it with guard bits. *)
(***************************************************************************)
BigNorm(x, e) ==
    [m |-> x * Pow2(15 - BitLen(x)), e |-> e - (15 - BitLen(x))]

BigMulLo(x, y) ==
    LET p == x.m * y.m
    IN  IF p >= Pow2(29)
        THEN [m |-> p \div Pow2(15), e |-> x.e + y.e + 15]
        ELSE [m |-> p \div Pow2(14), e |-> x.e + y.e + 14]

BigMulHi(x, y) ==
    LET p == x.m * y.m
        k == IF p >= Pow2(29) THEN 15 ELSE 14
        m == (p + Pow2(k) - 1) \div Pow2(k)
    IN  IF m = Pow2(15)
        THEN [m |-> Pow2(14), e |-> x.e + y.e + k + 1]
        ELSE [m |-> m, e |-> x.e + y.e + k]

RECURSIVE BigPowLo(_, _)
BigPowLo(x, n) ==
    IF n = 1 THEN x
    ELSE LET h == BigPowLo(x, n \div 2)
         IN  IF n % 2 = 0 THEN BigMulLo(h, h) ELSE BigMulLo(BigMulLo(h, h), x)

RECURSIVE BigPowHi(_, _)
BigPowHi(x, n) ==
    IF n = 1 THEN x
    ELSE LET h == BigPowHi(x, n \div 2)
         IN  IF n % 2 = 0 THEN BigMulHi(h, h) ELSE BigMulHi(BigMulHi(h, h), x)

BigLess(x, y) == x.e < y.e \/ (x.e = y.e /\ x.m < y.m)

\* Bounds on base^(y * Scale) and on (midpoint above c)^Scale; base, y and c
\* are floats in units of 2^-FracBits, base > 1, y > 0.
PowLo(base, y) == BigPowLo(BigNorm(base, 0 - FracBits), y)
PowHi(base, y) == BigPowHi(BigNorm(base, 0 - FracBits), y)
MidLo(c) == BigPowLo(BigNorm(2 * c + Ulp(c), 0 - (FracBits + 1)), Scale)
MidHi(c) == BigPowHi(BigNorm(2 * c + Ulp(c), 0 - (FracBits + 1)), Scale)

\* The midpoint between the float c and the next float above it lies below
\* the power whose lower bound is t: the result is above c.
MidBelow(t, c) == BigLess(MidHi(c), t)

\* The working precision left the comparison at c open.
MidUndecided(base, y, c) ==
    /\ ~BigLess(MidHi(c), PowLo(base, y))
    /\ ~BigLess(PowHi(base, y), MidLo(c))

\* The binade [2^k, 2^(k+1)) of the result, then the result within it by
\* bisection over the binade's floats lo, lo + u, ..., hi.
RECURSIVE FPowBinade(_, _)
FPowBinade(t, k) ==
    IF MidBelow(t, Pow2(FracBits + k + 1) - Pow2(FracBits + k + 1 - MantBits))
    THEN FPowBinade(t, k + 1)
    ELSE k

RECURSIVE FPowBisect(_, _, _, _)
FPowBisect(t, lo, hi, u) ==
    IF lo = hi THEN lo
    ELSE LET c == lo + ((hi - lo) \div (2 * u)) * u
         IN  IF MidBelow(t, c) THEN FPowBisect(t, c + u, hi, u)
                               ELSE FPowBisect(t, lo, c, u)

\* base ** y for base >= 1.0 and y >= 0; pow(1.0, y) = 1.0 and pow(x, 0) = 1.0
\* exactly (IEEE 754 / C99 Annex F).
FPow(base, y) ==
    IF base = One \/ y = 0 THEN One
    ELSE LET t == PowLo(base, y)
             k == FPowBinade(t, 0)
             u == Pow2(FracBits + k + 1 - MantBits)
         IN  FPowBisect(t, Pow2(FracBits + k), Pow2(FracBits + k + 1) - u, u)

(***************************************************************************)
(* Input values the caller draws from.                                     *)
(***************************************************************************)
Frac(n, d) == (n * Scale) \div d
Half == Frac(1, 2)
Quarter == Frac(1, 4)
HalfUp == Half + Scale \div Pow2(MantBits)     \* the float just above 1/2
TinyRate == Scale \div Pow2(MantBits + 1)      \* 1.0 + TinyRate rounds to 1.0
BigCohort == Pow2(MantBits) + 1                \* an int that is not a float

\* (prob_charge_off, prob_attrition) pairs that pass validation; the pairs
\* whose sum rounds to 1.0 or is 1.0 are offered for period 1 only.
ProbPairs(p) ==
    IF p = 1
    THEN { <<Quarter, 0>>, <<Quarter, Quarter>>, <<Half, HalfUp>>, <<One, 0>> }
    ELSE { <<Quarter, 0>>, <<Quarter, Quarter>> }

BaseRow(p) ==
    [period |-> p, prob_charge_off |-> Quarter, prob_attrition |-> Quarter,
     revolving_balance |-> 2 * One, purchase_amount |-> One,
     finance_charge_rate |-> Half, other_fees |-> One]

GoodRows ==
    UNION { { [BaseRow(p) EXCEPT !.prob_charge_off = pr[1], !.prob_attrition = pr[2]] :
                pr \in ProbPairs(p) } : p \in 1..MaxPeriods }

\* Rows on the edge of a constraint, and rows that break exactly one.
EdgeRows ==
    { [BaseRow(MaxPeriodIndex) EXCEPT !.prob_charge_off = Half, !.prob_attrition = Half],
      [BaseRow(1) EXCEPT !.revolving_balance = 0, !.finance_charge_rate = One] }

BadRows ==
    { [BaseRow(1) EXCEPT !.period = 0],
      [BaseRow(1) EXCEPT !.period = MaxPeriodIndex + 1],
      [BaseRow(1) EXCEPT !.prob_charge_off = 0 - Quarter],
      [BaseRow(1) EXCEPT !.prob_charge_off = One + Quarter, !.prob_attrition = 0],
      [BaseRow(1) EXCEPT !.prob_attrition = 0 - Quarter],
      [BaseRow(1) EXCEPT !.prob_attrition = One + Quarter, !.prob_charge_off = 0],
      [BaseRow(1) EXCEPT !.prob_charge_off = Half + Quarter, !.prob_attrition = Half],
      [BaseRow(1) EXCEPT !.revolving_balance = 0 - One],
      [BaseRow(1) EXCEPT !.purchase_amount = 0 - One],
      [BaseRow(1) EXCEPT !.finance_charge_rate = 0 - Half],
      [BaseRow(1) EXCEPT !.finance_charge_rate = One + Half],
      [BaseRow(1) EXCEPT !.other_fees = 0 - One] }

InputRows == GoodRows \cup EdgeRows \cup BadRows

GoodParams ==
    [flat_interchange_rate : {Half},
     discount_rate : {0, TinyRate, One},
     num_accounts : {8, BigCohort}]

BadParams ==
    { [flat_interchange_rate |-> 0 - Half, discount_rate |-> 0, num_accounts |-> 8],
      [flat_interchange_rate |-> One + Half, discount_rate |-> 0, num_accounts |-> 8],
      [flat_interchange_rate |-> Half, discount_rate |-> 0 - Quarter, num_accounts |-> 8],
      [flat_interchange_rate |-> Half, discount_rate |-> 0, num_accounts |-> 0],
      [flat_interchange_rate |-> Half, discount_rate |-> 0, num_accounts |-> 0 - 1] }

InputParams == GoodParams \cup BadParams

(***************************************************************************)
(* models.py: validation on construction.                                  *)
(***************************************************************************)
\* Variant: a combined probability of exactly 1.0 is rejected too.
CompetingRisksValidStrict(r) == FAdd(r.prob_charge_off, r.prob_attrition) < One
\* PeriodData: the Field constraints, then _competing_risks_valid.
CompetingRisksValid(r) == ~(FAdd(r.prob_charge_off, r.prob_attrition) > One)

PeriodDataFieldsValid(r) ==
    /\ r.period >= 1 /\ r.period <= MaxPeriodIndex
    /\ r.prob_charge_off >= 0 /\ r.prob_charge_off <= One
    /\ r.prob_attrition >= 0 /\ r.prob_attrition <= One
    /\ r.revolving_balance >= 0
    /\ r.purchase_amount >= 0
    /\ r.finance_charge_rate >= 0 /\ r.finance_charge_rate <= One
    /\ r.other_fees >= 0

PeriodDataValid(r) == PeriodDataFieldsValid(r) /\ CompetingRisksValid(r)

GlobalParametersValid(g) ==
    /\ g.flat_interchange_rate >= 0 /\ g.flat_interchange_rate <= One
    /\ g.discount_rate >= 0
    /\ g.num_accounts > 0

\* CohortInput._periods_sequential: actual == expected.
Actual(ps) == [i \in 1..Len(ps) |-> ps[i].period]
Expected(ps) == [i \in 1..Len(ps) |-> i]
\* Variant: compares the period values as a set, so any order passes.
PeriodsSequentialUnordered(ps) ==
    {ps[i].period : i \in 1..Len(ps)} = 1..Len(ps)
PeriodsSequential(ps) == Actual(ps) = Expected(ps)

ValidationError == [type |-> "ValidationError"]

Raise(e) ==
    /\ pc' = "raised"
    /\ err' = e
    /\ periods' = <<>>
    /\ params' = None
    /\ UNCHANGED <<cohort, df, summary, fe_inexact, first>>

\* PeriodData(**row): one more element of the caller's list, or the error.
NewPeriodData(row) ==
    /\ pc = "load_periods"
    /\ Len(periods) < MaxPeriods
    /\ IF PeriodDataValid(row)
       THEN /\ periods' = Append(periods, row)
            /\ call' = [fn |-> "PeriodData", args |-> row, ok |-> TRUE]
            /\ UNCHANGED <<pc, params, cohort, df, summary, err, fe_inexact, first>>
       ELSE /\ call' = [fn |-> "PeriodData", args |-> row, ok |-> FALSE]
            /\ Raise(ValidationError)

\* GlobalParameters(...), after the periods (load_cohort_input).
NewGlobalParameters(g) ==
    /\ pc = "load_periods"
    /\ IF GlobalParametersValid(g)
       THEN /\ params' = g
            /\ pc' = "construct_cohort"
            /\ call' = [fn |-> "GlobalParameters", args |-> g, ok |-> TRUE]
            /\ UNCHANGED <<periods, cohort, df, summary, err, fe_inexact, first>>
       ELSE /\ call' = [fn |-> "GlobalParameters", args |-> g, ok |-> FALSE]
            /\ Raise(ValidationError)

\* Variant: the outcome of the check is recorded but the run goes on.
NewCohortInputUnchecked ==
    /\ pc = "construct_cohort"
    /\ cohort' = [periods |-> periods, parameters |-> params]
    /\ pc' = "build_period_table"
    /\ call' = [fn |-> "CohortInput", args |-> Actual(periods),
                ok |-> PeriodsSequential(periods)]
    /\ UNCHANGED <<periods, params, df, summary, err, fe_inexact, first>>
\* CohortInput(periods=periods, parameters=params).
NewCohortInput ==
    /\ pc = "construct_cohort"
    /\ IF PeriodsSequential(periods)
       THEN /\ cohort' = [periods |-> periods, parameters |-> params]
            /\ pc' = "build_period_table"
            /\ call' = [fn |-> "CohortInput", args |-> Actual(periods), ok |-> TRUE]
            /\ UNCHANGED <<periods, params, df, summary, err, fe_inexact, first>>
       ELSE /\ call' = [fn |-> "CohortInput", args |-> Actual(periods), ok |-> FALSE]
            /\ Raise(ValidationError)

(***************************************************************************)
(* engine.py: the DataFrame and the pipeline stages.  A DataFrame is its   *)
(* set of column names and its rows, each row a function from column name  *)
(* to value; a Series is a sequence.                                       *)
(***************************************************************************)
Column(d, c) == [i \in 1..Len(d.rows) |-> d.rows[i][c]]

\* df[c] = s
WithColumn(d, c, s) ==
    [cols |-> d.cols \cup {c},
     rows |-> [i \in 1..Len(d.rows) |-> (c :> s[i]) @@ d.rows[i]]]

\* df[c] = scalar
WithScalar(d, c, v) ==
    [cols |-> d.cols \cup {c},
     rows |-> [i \in 1..Len(d.rows) |-> (c :> v) @@ d.rows[i]]]

KeyError(c) == [type |-> "KeyError", key |-> c]

PeriodColumns ==
    {"period", "prob_charge_off", "prob_attrition", "revolving_balance",
     "purchase_amount", "finance_charge_rate", "other_fees"}

\* pd.DataFrame(rows): the columns are the rows' keys; no rows, no columns.
DataFrame(rows) ==
    [cols |-> IF Len(rows) = 0 THEN {} ELSE PeriodColumns, rows |-> rows]

BuildPeriodTableOf(c) ==
    WithScalar(
      WithScalar(
        WithScalar(DataFrame(c.periods),
                   "flat_interchange_rate", c.parameters.flat_interchange_rate),
        "discount_rate", c.parameters.discount_rate),
      "num_accounts", c.parameters.num_accounts)

\* Series.cumprod(): running product, left to right.
RECURSIVE ProdFrom(_, _, _)
ProdFrom(s, acc, i) ==
    IF i > Len(s) THEN acc
    ELSE ProdFrom(s, Append(acc, IF i = 1 THEN s[1] ELSE FMul(acc[i - 1], s[i])), i + 1)
CumProd(s) == ProdFrom(s, <<>>, 1)

\* Variant: the first element keeps its own value instead of the fill.
ShiftKeepFirst(s, fill) == [i \in 1..Len(s) |-> IF i = 1 THEN s[1] ELSE s[i - 1]]
\* Series.shift(1, fill_value=fill)
Shift(s, fill) == [i \in 1..Len(s) |-> IF i = 1 THEN fill ELSE s[i - 1]]

\* Series.cumsum(): running sum, left to right.
RECURSIVE RunningSum(_, _, _)
RunningSum(s, acc, i) ==
    IF i > Len(s) THEN acc
    ELSE RunningSum(s, Append(acc, IF i = 1 THEN s[1] ELSE FAdd(acc[i - 1], s[i])), i + 1)
\* Variant: the running sum of the rows before the current one.
CumSumExclusive(s) ==
    [i \in 1..Len(s) |-> IF i = 1 THEN 0 ELSE RunningSum(s, <<>>, 1)[i - 1]]
CumSum(s) == RunningSum(s, <<>>, 1)

\* Series.sum() is numpy's add.reduce, a pairwise sum: below 8 elements a
\* plain loop from 0; from 8 elements on (and up to 128, more than the 60
\* periods a cohort can hold) 8 accumulators over the blocks of 8, combined
\* as ((r0+r1)+(r2+r3))+((r4+r5)+(r6+r7)), then the remaining elements.
RECURSIVE SumFrom(_, _, _)
SumFrom(s, acc, i) ==
    IF i > Len(s) THEN acc ELSE SumFrom(s, FAdd(acc, s[i]), i + 1)

RECURSIVE Lane(_, _, _)
Lane(s, j, k) ==
    IF k = 0 THEN s[j] ELSE FAdd(Lane(s, j, k - 1), s[8 * k + j])

PairwiseSum(s) ==
    IF Len(s) < 8 THEN SumFrom(s, 0, 1)
    ELSE LET blocks == Len(s) \div 8
             r(j)   == Lane(s, j, blocks - 1)
             res    == FAdd(FAdd(FAdd(r(1), r(2)), FAdd(r(3), r(4))),
                            FAdd(FAdd(r(5), r(6)), FAdd(r(7), r(8))))
         IN  SumFrom(s, res, 8 * blocks + 1)

Sum(s) == FAdd(0, PairwiseSum(s))

\* compute_survival
SurvivalFactor(d) ==
    [i \in 1..Len(d.rows) |->
        FSub(FSub(One, d.rows[i]["prob_charge_off"]), d.rows[i]["prob_attrition"])]

\* Variant: the running product without the shift, own period included.
CumulativeSurvivalNoShift(sf) == CumProd(sf)
CumulativeSurvival(sf) == Shift(CumProd(sf), One)

ActiveAccountsBop(d, cs) ==
    [i \in 1..Len(d.rows) |-> FMul(FromInt(d.rows[i]["num_accounts"]), cs[i])]

ComputeSurvivalOf(d) ==
    LET sf     == SurvivalFactor(d)
        cs     == CumulativeSurvival(sf)
        active == ActiveAccountsBop(d, cs)
        co     == [i \in 1..Len(d.rows) |-> FMul(active[i], d.rows[i]["prob_charge_off"])]
        at     == [i \in 1..Len(d.rows) |-> FMul(active[i], d.rows[i]["prob_attrition"])]
    IN  WithColumn(
          WithColumn(
            WithColumn(
              WithColumn(
                WithColumn(d, "survival_factor", sf),
                "cumulative_survival", cs),
              "active_accounts_bop", active),
            "charge_off_accounts", co),
          "attrition_accounts", at)

\* Some operation of compute_survival rounded its result.
SurvivalInexact(d) ==
    LET sf     == SurvivalFactor(d)
        cp     == CumProd(sf)
        cs     == CumulativeSurvival(sf)
        active == ActiveAccountsBop(d, cs)
    IN  \E i \in 1..Len(d.rows) :
           LET pco == d.rows[i]["prob_charge_off"]
               pa  == d.rows[i]["prob_attrition"]
               n   == d.rows[i]["num_accounts"]
           IN  \/ InexactSub(One, pco)
               \/ InexactSub(FSub(One, pco), pa)
               \/ (i > 1 /\ InexactMul(cp[i - 1], sf[i]))
               \/ FromInt(n) # n * Scale
               \/ InexactMul(FromInt(n), cs[i])
               \/ InexactMul(active[i], pco)
               \/ InexactMul(active[i], pa)

\* compute_revenue
ComputeRevenueOf(d) ==
    LET n  == Len(d.rows)
        fc == [i \in 1..n |->
                 FMul(FMul(d.rows[i]["active_accounts_bop"], d.rows[i]["revolving_balance"]),
                      d.rows[i]["finance_charge_rate"])]
        ic == [i \in 1..n |->
                 FMul(FMul(d.rows[i]["active_accounts_bop"], d.rows[i]["purchase_amount"]),
                      d.rows[i]["flat_interchange_rate"])]
        fi == [i \in 1..n |-> FMul(d.rows[i]["active_accounts_bop"], d.rows[i]["other_fees"])]
        tr == [i \in 1..n |-> FAdd(FAdd(fc[i], ic[i]), fi[i])]
    IN  WithColumn(
          WithColumn(
            WithColumn(
              WithColumn(d, "finance_charge", fc),
              "interchange", ic),
            "fee_income", fi),
          "total_revenue", tr)

\* Variant: the loss is taken on the accounts that attrite.
ComputeCostsByAttrition(d) ==
    LET col == [i \in 1..Len(d.rows) |->
                  FMul(FMul(d.rows[i]["active_accounts_bop"], d.rows[i]["prob_attrition"]),
                       d.rows[i]["revolving_balance"])]
    IN  WithColumn(WithColumn(d, "charge_off_loss", col), "total_cost", col)
\* compute_costs
ComputeCostsOf(d) ==
    LET col == [i \in 1..Len(d.rows) |->
                  FMul(FMul(d.rows[i]["active_accounts_bop"], d.rows[i]["prob_charge_off"]),
                       d.rows[i]["revolving_balance"])]
    IN  WithColumn(WithColumn(d, "charge_off_loss", col), "total_cost", col)

\* Variant: ** binds tighter than /, written without the parentheses:
\* 1.0 / ((1.0 + annual_rate) ** period / 12.0)
DiscountFactorPrecedence(rate, period) ==
    FDiv(One, FDiv(FPow(FAdd(One, rate), FromInt(period)), FromInt(MonthsPerYear)))
\* 1.0 / (1.0 + annual_rate) ** (period / 12.0)
DiscountFactor(rate, period) ==
    FDiv(One, FPow(FAdd(One, rate), FDiv(FromInt(period), FromInt(MonthsPerYear))))

\* compute_net_income_and_pv
ComputeNetIncomeAndPvOf(d) ==
    LET n   == Len(d.rows)
        ni  == [i \in 1..n |-> FSub(d.rows[i]["total_revenue"], d.rows[i]["total_cost"])]
        dfa == [i \in 1..n |-> DiscountFactor(d.rows[i]["discount_rate"], d.rows[i]["period"])]
        pv  == [i \in 1..n |-> FMul(ni[i], dfa[i])]
    IN  WithColumn(
          WithColumn(
            WithColumn(
              WithColumn(d, "net_income", ni),
              "discount_factor", dfa),
            "pv_net_income", pv),
          "cumulative_pv", CumSum(pv))

\* Variant: total_pv is kept in a running total across calls.
ComputeSummaryAccumulating(d, num_accounts) ==
    LET this     == Sum(Column(d, "pv_net_income"))
        total_pv == IF first = None THEN this ELSE FAdd(first.summary.total_pv, this)
        last     == d.rows[Len(d.rows)]
    IN  [total_pv |-> total_pv,
         pv_per_account |-> FDiv(total_pv, FromInt(num_accounts)),
         total_revenue |-> Sum(Column(d, "total_revenue")),
         total_cost |-> Sum(Column(d, "total_cost")),
         total_net_income |-> Sum(Column(d, "net_income")),
         final_survival_rate |-> FMul(last["cumulative_survival"], last["survival_factor"]),
         num_periods |-> Len(d.rows),
         num_accounts |-> num_accounts]
\* compute_summary
ComputeSummaryOf(d, num_accounts) ==
    LET total_pv == Sum(Column(d, "pv_net_income"))
        last     == d.rows[Len(d.rows)]
    IN  [total_pv |-> total_pv,
         pv_per_account |-> FDiv(total_pv, FromInt(num_accounts)),
         total_revenue |-> Sum(Column(d, "total_revenue")),
         total_cost |-> Sum(Column(d, "total_cost")),
         total_net_income |-> Sum(Column(d, "net_income")),
         final_survival_rate |-> FMul(last["cumulative_survival"], last["survival_factor"]),
         num_periods |-> Len(d.rows),
         num_accounts |-> num_accounts]

(***************************************************************************)
(* run_valuation, one stage per step.                                      *)
(***************************************************************************)
\* The first column of cs, in the order the stage reads them, that d lacks.
Missing(d, cs) == CHOOSE i \in 1..Len(cs) :
                     cs[i] \notin d.cols /\ \A j \in 1..(i - 1) : cs[j] \in d.cols

Stage(here, next, reads, out) ==
    /\ pc = here
    /\ IF \A i \in 1..Len(reads) : reads[i] \in df.cols
       THEN /\ df' = out
            /\ pc' = next
            /\ UNCHANGED <<periods, params, cohort, call, summary, err, first>>
       ELSE /\ Raise(KeyError(reads[Missing(df, reads)]))
            /\ UNCHANGED call

BuildPeriodTable ==
    /\ pc = "build_period_table"
    /\ df' = BuildPeriodTableOf(cohort)
    /\ pc' = "compute_survival"
    /\ UNCHANGED <<periods, params, cohort, call, summary, err, fe_inexact, first>>

ComputeSurvival ==
    /\ Stage("compute_survival", "compute_revenue",
             <<"prob_charge_off", "prob_attrition", "num_accounts">>,
             ComputeSurvivalOf(df))
    /\ fe_inexact' = (pc' = "compute_revenue" /\ SurvivalInexact(df))

ComputeRevenue ==
    /\ Stage("compute_revenue", "compute_costs",
             <<"active_accounts_bop", "revolving_balance", "finance_charge_rate",
               "purchase_amount", "flat_interchange_rate", "other_fees">>,
             ComputeRevenueOf(df))
    /\ UNCHANGED fe_inexact

ComputeCosts ==
    /\ Stage("compute_costs", "compute_net_income_and_pv",
             <<"active_accounts_bop", "prob_charge_off", "revolving_balance">>,
             ComputeCostsOf(df))
    /\ UNCHANGED fe_inexact

ComputeNetIncomeAndPv ==
    /\ Stage("compute_net_income_and_pv", "compute_summary",
             <<"total_revenue", "total_cost", "discount_rate", "period">>,
             ComputeNetIncomeAndPvOf(df))
    /\ UNCHANGED fe_inexact

ComputeSummary ==
    /\ pc = "compute_summary"
    /\ summary' = ComputeSummaryOf(df, cohort.parameters.num_accounts)
    /\ pc' = "done"
    /\ UNCHANGED <<periods, params, cohort, call, df, err, fe_inexact, first>>

Init ==
    /\ pc = "load_periods"
    /\ periods = <<>>
    /\ params = None
    /\ cohort = None
    /\ call = [fn |-> "None", args |-> <<>>, ok |-> TRUE]
    /\ df = None
    /\ summary = None
    /\ err = None
    /\ fe_inexact = FALSE
    /\ first = None

Next ==
    \/ \E row \in InputRows : NewPeriodData(row)
    \/ \E g \in InputParams : NewGlobalParameters(g)
    \/ NewCohortInput
    \/ BuildPeriodTable
    \/ ComputeSurvival
    \/ ComputeRevenue
    \/ ComputeCosts
    \/ ComputeNetIncomeAndPv
    \/ ComputeSummary

Spec == Init /\ [][Next]_vars

(***************************************************************************)
(* A caller that values the same cohort a second time:                     *)
(*     df1, s1 = run_valuation(cohort); df2, s2 = run_valuation(cohort)    *)
(***************************************************************************)
RunAgain ==
    /\ pc = "done"
    /\ first = None
    /\ first' = [df |-> df, summary |-> summary, cohort |-> cohort]
    /\ pc' = "build_period_table"
    /\ df' = None
    /\ summary' = None
    /\ UNCHANGED <<periods, params, cohort, call, err, fe_inexact>>

NextTwice == Next \/ RunAgain

SpecTwice == Init /\ [][NextTwice]_vars

(***************************************************************************)
(* run_valuation on cohorts of up to LongPeriods periods.  The cohorts are *)
(* the ones CohortInput accepts (periods 1..n in order, valid rows), built *)
(* as load_cohort_input leaves them, so the run starts at run_valuation.   *)
(***************************************************************************)
LongLens == {0, 2, 7, LongPeriods}

LongRow(p, heavy) ==
    [BaseRow(p) EXCEPT !.prob_attrition = IF heavy THEN Quarter ELSE 0]

\* The first MaxPeriods periods vary, the later ones are all alike.
LongPeriodLists ==
    UNION { { [p \in 1..n |-> LongRow(p, p \in H)] :
                H \in SUBSET ((1..n) \cap (1..MaxPeriods)) } :
            n \in LongLens }

LongParams ==
    [flat_interchange_rate : {Half}, discount_rate : {0, One}, num_accounts : {8}]

InitLong ==
    /\ pc = "build_period_table"
    /\ periods \in LongPeriodLists
    /\ params \in LongParams
    /\ cohort = [periods |-> periods, parameters |-> params]
    /\ PeriodsSequential(periods)
    /\ \A i \in 1..Len(periods) : PeriodDataValid(periods[i])
    /\ GlobalParametersValid(params)
    /\ call = [fn |-> "CohortInput", args |-> Actual(periods), ok |-> TRUE]
    /\ df = None
    /\ summary = None
    /\ err = None
    /\ fe_inexact = FALSE
    /\ first = None

NextLong ==
    \/ BuildPeriodTable
    \/ ComputeSurvival
    \/ ComputeRevenue
    \/ ComputeCosts
    \/ ComputeNetIncomeAndPv
    \/ ComputeSummary

SpecLong == InitLong /\ [][NextLong]_vars

(***************************************************************************)
(* Assignment after construction.  The three models are plain pydantic     *)
(* BaseModel subclasses (models.py lines 8, 29, 37: no frozen, no          *)
(* validate_assignment), so obj.field = value stores the value and runs no *)
(* validator.  CohortInput(periods=..., parameters=...) validates          *)
(* list[PeriodData] into a new list but keeps the PeriodData and           *)
(* GlobalParameters instances it was given: the caller's periods[i] and    *)
(* cohort.periods[i] are one object, and so are params and                 *)
(* cohort.parameters.  The run starts where load_cohort_input returned.    *)
(***************************************************************************)
ShortPeriodLists ==
    UNION { { [p \in 1..n |-> LongRow(p, p \in H)] : H \in SUBSET (1..n) } :
            n \in 1..(MaxPeriods - 1) }

InitAssign ==
    /\ pc = "build_period_table"
    /\ periods \in ShortPeriodLists
    /\ params \in LongParams
    /\ cohort = [periods |-> periods, parameters |-> params]
    /\ PeriodsSequential(periods)
    /\ \A i \in 1..Len(periods) : PeriodDataValid(periods[i])
    /\ GlobalParametersValid(params)
    /\ call = [fn |-> "CohortInput", args |-> Actual(periods), ok |-> TRUE]
    /\ df = None
    /\ summary = None
    /\ err = None
    /\ fe_inexact = FALSE
    /\ first = None

\* The values a caller assigns, and the holder it reaches the object through.
AssignedFields == { <<"period", 0>>, <<"prob_charge_off", One>> }
AssignedParams == { <<"flat_interchange_rate", One + Half>>, <<"discount_rate", One>> }
Holders == {"caller", "cohort"}

\* Nothing was assigned or appended since the cohort was constructed.
Untouched == call.fn = "CohortInput"

\* periods[i].f = v (via = "caller") or cohort.periods[i].f = v (via =
\* "cohort"): the same PeriodData object either way.
SetAttrPeriodData(via, i, f, v) ==
    /\ pc = "build_period_table"
    /\ Untouched
    /\ i \in 1..Len(cohort.periods)
    /\ periods' = [periods EXCEPT ![i][f] = v]
    /\ cohort' = [cohort EXCEPT !.periods[i][f] = v]
    /\ call' = [fn |-> "setattr",
                args |-> [via |-> via, object |-> "PeriodData", field |-> f, value |-> v],
                ok |-> TRUE]
    /\ UNCHANGED <<pc, params, df, summary, err, fe_inexact, first>>

\* params.f = v or cohort.parameters.f = v: the same GlobalParameters object.
SetAttrGlobalParameters(via, f, v) ==
    /\ pc = "build_period_table"
    /\ Untouched
    /\ params' = [params EXCEPT ![f] = v]
    /\ cohort' = [cohort EXCEPT !.parameters[f] = v]
    /\ call' = [fn |-> "setattr",
                args |-> [via |-> via, object |-> "GlobalParameters", field |-> f, value |-> v],
                ok |-> TRUE]
    /\ UNCHANGED <<pc, periods, df, summary, err, fe_inexact, first>>

\* periods.append(row) on the caller's list, or cohort.periods.append(row):
\* two different list objects.
ListAppend(via, row) ==
    /\ pc = "build_period_table"
    /\ Untouched
    /\ IF via = "caller"
       THEN periods' = Append(periods, row) /\ UNCHANGED cohort
       ELSE cohort' = [cohort EXCEPT !.periods = Append(@, row)] /\ UNCHANGED periods
    /\ call' = [fn |-> "append",
                args |-> [via |-> via, object |-> "list", field |-> "periods", value |-> row],
                ok |-> TRUE]
    /\ UNCHANGED <<pc, params, df, summary, err, fe_inexact, first>>

NextAssign ==
    \/ \E via \in Holders, i \in 1..MaxPeriods, fv \in AssignedFields :
          SetAttrPeriodData(via, i, fv[1], fv[2])
    \/ \E via \in Holders, fv \in AssignedParams :
          SetAttrGlobalParameters(via, fv[1], fv[2])
    \/ \E via \in Holders : ListAppend(via, LongRow(1, FALSE))
    \/ BuildPeriodTable
    \/ ComputeSurvival
    \/ ComputeRevenue
    \/ ComputeCosts
    \/ ComputeNetIncomeAndPv
    \/ ComputeSummary

SpecAssign == InitAssign /\ [][NextAssign]_vars

(***************************************************************************)
(* Properties.  Positions of run_valuation by the columns the table holds. *)
(***************************************************************************)
HasSurvival ==
    pc \in {"compute_revenue", "compute_costs", "compute_net_income_and_pv",
            "compute_summary", "done"}
HasRevenue ==
    pc \in {"compute_costs", "compute_net_income_and_pv", "compute_summary", "done"}
HasPv == pc \in {"compute_summary", "done"}

\* Exact (unrounded) sum of the exits of periods 1..k, in units of 2^-FracBits.
RECURSIVE ExitsTo(_)
ExitsTo(k) ==
    IF k = 0 THEN 0
    ELSE ExitsTo(k - 1) + df.rows[k]["charge_off_accounts"]
                        + df.rows[k]["attrition_accounts"]

\* C1: account conservation.  When no operation of compute_survival rounded
\* (the arithmetic was exact), for every prefix 1..k of the table the
\* charge-offs plus the attritions of the prefix, plus
\* active_accounts_bop[k] * survival_factor[k], are exactly num_accounts.
C1_AccountConservation ==
    (HasSurvival /\ ~fe_inexact) =>
        \A k \in 1..Len(df.rows) :
            ExitsTo(k) * Scale
              + df.rows[k]["active_accounts_bop"] * df.rows[k]["survival_factor"]
            = cohort.parameters.num_accounts * Scale * Scale

C1_Witness ==
    /\ pc = "done" /\ ~fe_inexact
    /\ Len(df.rows) >= 3
    /\ \A k \in 1..Len(df.rows) :
          /\ df.rows[k]["charge_off_accounts"] > 0
          /\ df.rows[k]["attrition_accounts"] > 0

\* C2: CohortInput(...) succeeds exactly when the period values, in list
\* order, are 1, 2, ..., len(periods); otherwise it raises a validation
\* error and no CohortInput exists.
C2_SequentialPeriods ==
    call.fn = "CohortInput" =>
        /\ call.ok <=> \A i \in 1..Len(call.args) : call.args[i] = i
        /\ call.ok => /\ cohort # None
                      /\ Actual(cohort.periods) = call.args
        /\ ~call.ok => /\ cohort = None
                       /\ pc = "raised"
                       /\ err = ValidationError

C2_Witness ==
    /\ call.fn = "CohortInput" /\ ~call.ok
    /\ call.args = <<2, 1>>
    /\ cohort = None /\ err = ValidationError

\* C4: PeriodData(...) succeeds exactly when period is in 1..60, the two
\* probabilities and finance_charge_rate are in [0, 1], the three amounts are
\* >= 0 and the float sum prob_charge_off + prob_attrition is <= 1.0; any
\* violated condition raises a validation error.
C4_Accepted(a) ==
    /\ a["period"] \in 1..60
    /\ \A f \in {"prob_charge_off", "prob_attrition", "finance_charge_rate"} :
          0 <= a[f] /\ a[f] <= One
    /\ \A f \in {"revolving_balance", "purchase_amount", "other_fees"} : a[f] >= 0
    /\ FAdd(a["prob_charge_off"], a["prob_attrition"]) <= One

C4_PeriodDataValidation ==
    call.fn = "PeriodData" =>
        /\ call.ok <=> C4_Accepted(call.args)
        /\ call.ok => periods[Len(periods)] = call.args
        /\ ~call.ok => pc = "raised" /\ err = ValidationError

C4_Witness ==
    /\ call.fn = "PeriodData" /\ call.ok
    /\ call.args["period"] = 60
    /\ FAdd(call.args["prob_charge_off"], call.args["prob_attrition"]) = One
    /\ \E i \in 1..Len(periods) : periods[i]["revolving_balance"] = 0

\* C5: survival cascade.  survival_factor[k] = 1 - prob_charge_off[k]
\* - prob_attrition[k]; cumulative_survival[k] is the left-to-right product of
\* the survival factors of the periods before k (1.0 for k = 1); and
\* active_accounts_bop[k] = num_accounts * cumulative_survival[k], so period 1
\* starts with the full cohort.
C5_Factor(j) ==
    FSub(FSub(One, cohort.periods[j].prob_charge_off), cohort.periods[j].prob_attrition)

RECURSIVE C5_PriorProduct(_)
C5_PriorProduct(k) ==
    IF k = 1 THEN One ELSE FMul(C5_PriorProduct(k - 1), C5_Factor(k - 1))

C5_SurvivalCascade ==
    HasSurvival =>
        /\ Len(df.rows) = Len(cohort.periods)
        /\ \A k \in 1..Len(df.rows) :
              /\ df.rows[k]["survival_factor"] = C5_Factor(k)
              /\ df.rows[k]["cumulative_survival"] = C5_PriorProduct(k)
              /\ df.rows[k]["active_accounts_bop"] =
                    FMul(FromInt(cohort.parameters.num_accounts), C5_PriorProduct(k))
              /\ k = 1 => df.rows[k]["active_accounts_bop"] =
                             FromInt(cohort.parameters.num_accounts)

C5_Witness ==
    /\ pc = "done"
    /\ Len(df.rows) >= 3
    /\ df.rows[1]["cumulative_survival"] = One
    /\ df.rows[2]["cumulative_survival"] < One
    /\ df.rows[3]["cumulative_survival"] < df.rows[2]["cumulative_survival"]
    /\ df.rows[3]["cumulative_survival"] > 0

\* pow was decided: for no float c from 1.0 up to the binade above the
\* result did the working precision leave the comparison at c open.
PowDecided ==
    HasPv =>
        \A k \in 1..Len(df.rows) :
            LET base == FAdd(One, df.rows[k]["discount_rate"])
                y    == FDiv(FromInt(df.rows[k]["period"]), FromInt(MonthsPerYear))
            IN  \/ base = One
                \/ \A c \in One..(4 * FPow(base, y)) :
                      IsFloat(c) => ~MidUndecided(base, y, c)

\* C3: run_valuation cannot fail on a valid CohortInput: once CohortInput(...)
\* has succeeded, no stage of run_valuation raises.
C3_RunCannotFail ==
    (call.fn = "CohortInput" /\ call.ok) => pc # "raised"

\* C6: monotonic decay: active_accounts_bop[k+1] <= active_accounts_bop[k]
\* for every consecutive pair of rows of the table.
C6_MonotonicDecay ==
    HasSurvival =>
        \A k \in 1..(Len(df.rows) - 1) :
            df.rows[k + 1]["active_accounts_bop"] <= df.rows[k]["active_accounts_bop"]

\* C7: total exit absorbs the cohort: after a period whose combined exit
\* probability prob_charge_off + prob_attrition is 1.0, every later period
\* has active_accounts_bop = 0 and total_revenue = 0; and a period has
\* active_accounts_bop = 0 only if an earlier period's combined exit
\* probability is 1.0.
C7_CombinedExit(k) ==
    FAdd(cohort.periods[k].prob_charge_off, cohort.periods[k].prob_attrition)

C7_TotalExitAbsorbs ==
    HasRevenue =>
        \A k \in 1..Len(df.rows) :
            /\ C7_CombinedExit(k) = One =>
                  \A j \in (k + 1)..Len(df.rows) :
                      /\ df.rows[j]["active_accounts_bop"] = 0
                      /\ df.rows[j]["total_revenue"] = 0
            /\ df.rows[k]["active_accounts_bop"] = 0 =>
                  \E j \in 1..(k - 1) : C7_CombinedExit(j) = One

\* C8: cumulative PV identity: cumulative_pv of row i is the running
\* left-to-right sum of pv_net_income over rows 1..i, and for a table of
\* fewer than 8 rows the last row's cumulative_pv equals summary.total_pv.
C8_RunningSum ==
    HasPv =>
        \A i \in 1..Len(df.rows) :
            df.rows[i]["cumulative_pv"] =
                IF i = 1 THEN df.rows[1]["pv_net_income"]
                ELSE FAdd(df.rows[i - 1]["cumulative_pv"], df.rows[i]["pv_net_income"])

C8_CumulativePvShort ==
    /\ C8_RunningSum
    /\ (pc = "done" /\ Len(df.rows) < 8) =>
          df.rows[Len(df.rows)]["cumulative_pv"] = summary.total_pv

C8_Witness ==
    /\ pc = "done"
    /\ Len(df.rows) = 7
    /\ cohort.parameters.discount_rate > 0
    /\ df.rows[7]["cumulative_pv"] # df.rows[6]["cumulative_pv"]
    /\ df.rows[7]["cumulative_pv"] = summary.total_pv

\* C8 as stated: the last row's cumulative_pv equals summary.total_pv for
\* every table.
C8_CumulativePvIdentity ==
    /\ C8_RunningSum
    /\ pc = "done" => df.rows[Len(df.rows)]["cumulative_pv"] = summary.total_pv

\* C9: zero discount rate: with discount_rate = 0 every discount_factor is
\* 1.0, pv_net_income equals net_income in every period, and
\* summary.total_pv equals summary.total_net_income.
C9_ZeroDiscountRate ==
    (HasPv /\ cohort.parameters.discount_rate = 0) =>
        /\ \A k \in 1..Len(df.rows) :
              /\ df.rows[k]["discount_factor"] = One
              /\ df.rows[k]["pv_net_income"] = df.rows[k]["net_income"]
        /\ pc = "done" => summary.total_pv = summary.total_net_income

C9_Witness ==
    /\ pc = "done"
    /\ cohort.parameters.discount_rate = 0
    /\ Len(df.rows) >= 3
    /\ \A k \in 1..Len(df.rows) : df.rows[k]["net_income"] # 0
    /\ summary.total_pv = summary.total_net_income

\* C10: discount monotonicity: whenever discount_rate > 0, discount_factor
\* lies in (0, 1) and is strictly decreasing from each row to the next.
C10_DiscountMonotonic ==
    (HasPv /\ cohort.parameters.discount_rate > 0) =>
        \A k \in 1..Len(df.rows) :
            /\ 0 < df.rows[k]["discount_factor"]
            /\ df.rows[k]["discount_factor"] < One
            /\ k > 1 => df.rows[k]["discount_factor"] < df.rows[k - 1]["discount_factor"]

\* C11: input values are immutable once constructed: the range, competing-
\* risk and 1..N contiguity invariants hold for every CohortInput observable
\* after its construction, whatever operation was applied to it since.
C11_InvariantsPreserved ==
    cohort # None =>
        /\ PeriodsSequential(cohort.periods)
        /\ \A i \in 1..Len(cohort.periods) : PeriodDataValid(cohort.periods[i])
        /\ GlobalParametersValid(cohort.parameters)

\* C12: fail-fast ordering: a validation failure (a field out of range, a
\* competing-risk sum above 1, non-sequential periods, num_accounts <= 0)
\* ends the run before any pipeline stage has run: no table and no summary
\* exists then or later, and a pipeline stage runs only after every
\* constructor call has succeeded.
C12_FailFast ==
    /\ ~call.ok => err = ValidationError
    /\ err = ValidationError =>
          /\ pc = "raised" /\ ~call.ok
          /\ cohort = None /\ df = None /\ summary = None
    /\ (df # None \/ summary # None) =>
          /\ call.fn = "CohortInput" /\ call.ok
          /\ \A i \in 1..Len(cohort.periods) : PeriodDataValid(cohort.periods[i])
          /\ GlobalParametersValid(cohort.parameters)
          /\ PeriodsSequential(cohort.periods)

C12_Witness ==
    /\ pc = "raised" /\ err = ValidationError
    /\ call.fn = "GlobalParameters" /\ call.args.num_accounts = 0
    /\ df = None /\ summary = None

\* C13: net income per period.  In every row total_revenue = finance_charge
\* + interchange + fee_income, total_cost = charge_off_loss and net_income =
\* total_revenue - total_cost, each term computed from that row's
\* active_accounts_bop and that period's inputs; and whenever none of the
\* operations involved rounds, net_income = active_accounts_bop *
\* (revolving_balance * finance_charge_rate + purchase_amount *
\* flat_interchange_rate + other_fees - prob_charge_off * revolving_balance).
C13_Bracket(p, g) ==
    FSub(FAdd(FAdd(FMul(p.revolving_balance, p.finance_charge_rate),
                   FMul(p.purchase_amount, g.flat_interchange_rate)),
              p.other_fees),
         FMul(p.prob_charge_off, p.revolving_balance))

\* No operation of the row's net income, term by term or factored, rounded.
C13_RowExact(r, p, g) ==
    LET a == r["active_accounts_bop"]
    IN  /\ ~InexactMul(a, p.revolving_balance)
        /\ ~InexactMul(FMul(a, p.revolving_balance), p.finance_charge_rate)
        /\ ~InexactMul(a, p.purchase_amount)
        /\ ~InexactMul(FMul(a, p.purchase_amount), g.flat_interchange_rate)
        /\ ~InexactMul(a, p.other_fees)
        /\ ~InexactAdd(r["finance_charge"], r["interchange"])
        /\ ~InexactAdd(FAdd(r["finance_charge"], r["interchange"]), r["fee_income"])
        /\ ~InexactMul(a, p.prob_charge_off)
        /\ ~InexactMul(FMul(a, p.prob_charge_off), p.revolving_balance)
        /\ ~InexactSub(r["total_revenue"], r["total_cost"])
        /\ ~InexactMul(p.revolving_balance, p.finance_charge_rate)
        /\ ~InexactMul(p.purchase_amount, g.flat_interchange_rate)
        /\ ~InexactAdd(FMul(p.revolving_balance, p.finance_charge_rate),
                       FMul(p.purchase_amount, g.flat_interchange_rate))
        /\ ~InexactAdd(FAdd(FMul(p.revolving_balance, p.finance_charge_rate),
                            FMul(p.purchase_amount, g.flat_interchange_rate)),
                       p.other_fees)
        /\ ~InexactMul(p.prob_charge_off, p.revolving_balance)
        /\ ~InexactSub(FAdd(FAdd(FMul(p.revolving_balance, p.finance_charge_rate),
                                 FMul(p.purchase_amount, g.flat_interchange_rate)),
                            p.other_fees),
                       FMul(p.prob_charge_off, p.revolving_balance))
        /\ ~InexactMul(a, C13_Bracket(p, g))

C13_NetIncome ==
    HasPv =>
        \A k \in 1..Len(df.rows) :
            LET r == df.rows[k]
                p == cohort.periods[k]
                g == cohort.parameters
                a == r["active_accounts_bop"]
            IN  /\ r["finance_charge"] =
                      FMul(FMul(a, p.revolving_balance), p.finance_charge_rate)
                /\ r["interchange"] =
                      FMul(FMul(a, p.purchase_amount), g.flat_interchange_rate)
                /\ r["fee_income"] = FMul(a, p.other_fees)
                /\ r["total_revenue"] =
                      FAdd(FAdd(r["finance_charge"], r["interchange"]), r["fee_income"])
                /\ r["charge_off_loss"] =
                      FMul(FMul(a, p.prob_charge_off), p.revolving_balance)
                /\ r["total_cost"] = r["charge_off_loss"]
                /\ r["net_income"] = FSub(r["total_revenue"], r["total_cost"])
                /\ C13_RowExact(r, p, g) =>
                      r["net_income"] = FMul(a, C13_Bracket(p, g))

C13_Witness ==
    /\ pc = "done"
    /\ Len(df.rows) >= 2
    /\ \A k \in 1..Len(df.rows) :
          /\ C13_RowExact(df.rows[k], cohort.periods[k], cohort.parameters)
          /\ df.rows[k]["total_cost"] > 0
          /\ df.rows[k]["net_income"] > 0
    /\ df.rows[2]["active_accounts_bop"] < df.rows[1]["active_accounts_bop"]
    /\ df.rows[2]["net_income"] < df.rows[1]["net_income"]

\* C14: summary.final_survival_rate is cumulative_survival * survival_factor
\* of the last row, the product of the survival factors of all periods, the
\* last included; so (when nothing rounded) num_accounts *
\* final_survival_rate = num_accounts - (all charge-offs + all attritions),
\* and 0 <= final_survival_rate <= 1.
C14_LastRowProduct ==
    pc = "done" =>
        LET n    == Len(df.rows)
            last == df.rows[n]
            fsr  == summary.final_survival_rate
        IN  /\ fsr = FMul(last["cumulative_survival"], last["survival_factor"])
            /\ fsr = FMul(C5_PriorProduct(n), C5_Factor(n))
            /\ (~fe_inexact
                  /\ ~InexactMul(last["cumulative_survival"], last["survival_factor"])) =>
                  cohort.parameters.num_accounts * fsr
                    = cohort.parameters.num_accounts * Scale - ExitsTo(n)

C14_FinalSurvivalRate ==
    /\ C14_LastRowProduct
    /\ pc = "done" =>
          /\ 0 <= summary.final_survival_rate
          /\ summary.final_survival_rate <= One

C16_Stages ==
    {"compute_survival", "compute_revenue", "compute_costs", "compute_net_income_and_pv"}

C16_Reads(stage) ==
    CASE stage = "compute_survival" ->
           {"prob_charge_off", "prob_attrition", "num_accounts"}
      [] stage = "compute_revenue" ->
           {"active_accounts_bop", "revolving_balance", "finance_charge_rate",
            "purchase_amount", "flat_interchange_rate", "other_fees"}
      [] stage = "compute_costs" ->
           {"active_accounts_bop", "prob_charge_off", "revolving_balance"}
      [] stage = "compute_net_income_and_pv" ->
           {"total_revenue", "total_cost", "discount_rate", "period"}

C16_Adds(stage) ==
    CASE stage = "compute_survival" ->
           {"survival_factor", "cumulative_survival", "active_accounts_bop",
            "charge_off_accounts", "attrition_accounts"}
      [] stage = "compute_revenue" ->
           {"finance_charge", "interchange", "fee_income", "total_revenue"}
      [] stage = "compute_costs" -> {"charge_off_loss", "total_cost"}
      [] stage = "compute_net_income_and_pv" ->
           {"net_income", "discount_factor", "pv_net_income", "cumulative_pv"}

\* The step from table d to table e is a frame-respecting step of the stage.
C16_Frame(stage, d, e) ==
    /\ Len(e.rows) = Len(d.rows)
    /\ C16_Adds(stage) \cap d.cols = {}
    /\ e.cols = d.cols \cup C16_Adds(stage)
    /\ \A i \in 1..Len(d.rows) :
          /\ DOMAIN e.rows[i] = e.cols
          /\ \A c \in d.cols : e.rows[i][c] = d.rows[i][c]

C16_StageFrame ==
    [][(pc \in C16_Stages /\ pc' # pc) =>
          /\ C16_Reads(pc) \subseteq df.cols
          /\ C16_Frame(pc, df, df')]_vars

\* The frame part alone: it holds for every stage that returns.
C16_FrameWhenReturned ==
    [][(pc \in C16_Stages /\ pc' # pc /\ pc' # "raised") =>
          /\ C16_Reads(pc) \subseteq df.cols
          /\ C16_Frame(pc, df, df')]_vars

\* C17: owned by value.  After construction, a change made through the
\* PeriodData or GlobalParameters objects, or the list, that the caller
\* passed to the CohortInput constructor never changes the cohort's periods
\* or parameters.
C17_CallerChange ==
    /\ Untouched
    /\ call'.fn \in {"setattr", "append"}
    /\ call'.args.via = "caller"

C17_OwnedByValue ==
    [][C17_CallerChange => cohort' = cohort]_vars

\* The list alone is the cohort's own: appending to the caller's list leaves
\* the cohort as it was.
C17_ListCopied ==
    [][(C17_CallerChange /\ call'.fn = "append") => cohort' = cohort]_vars

====
